---- MODULE Spec2Model ----
(***************************************************************************)
(* Annotator (src/mapreader/annotate/annotator.py): the annotation session *)
(* of MapReader as a state machine.  The table is the DataFrame the class  *)
(* subclasses; the session file is the csv that _auto_save writes and that *)
(* __init__ reads back.                                                    *)
(***************************************************************************)
EXTENDS Integers, Sequences, FiniteSets, TLC

\* ------------------------------------------------------------------ bounds
NumRows == 3            \* rows of the patch table
MaxPaths == 2           \* entries of the image path column, for the session identity
NumTiles == 4           \* rows of the table the context image is composed from
MaxSurrounding == 1     \* largest `surrounding` a session is configured with
MaxPrelabelled == 1     \* rows of the supplied table that carry a label value
MaxPriorRows == 1       \* rows of a session file found at first construction
MaxPasses == 2          \* annotate() / annotate_context() calls per session
MaxRestarts == 1        \* sessions constructed after the first
MaxCells == 2           \* rows of a table read from a csv file
MaxQuote == 2           \* quotation marks nested around a literal in a csv cell
MaxEvals == 2           \* applications of _eval_df to one table
MaxInstances == 1       \* text instances the detector finds in one patch
MaxConverts == 2        \* calls of convert_to_parent_pixel_bounds on one runner

Rows == 1..NumRows

\* the index of the table handed to __init__
FreshIndex == [i \in 1..NumRows |-> i]

\* a row key that is in a session file and not in the table
StrayKey == NumRows + 1
FileKeys == Rows \cup {StrayKey}

\* ------------------------------------------------------- python / pandas
\* Cell values are strings; None and float('nan') are the two null cells.
None == "<None>"
NaN == "<NaN>"

\* bool(x) as `True if x else False` evaluates it: None and "" are falsy,
\* nan and every non-empty string are truthy.
Truthy(x) == x \notin {None, ""}

\* Series.notna(): None and nan are both missing.
NotNa(x) == x \notin {None, NaN}

\* list[i]: 0-based, negative indices count from the end.
PyInRange(s, i) == (-Len(s) <= i) /\ (i < Len(s))
PyIndex(s, i) == IF i >= 0 THEN s[i + 1] ELSE s[Len(s) + i + 1]

\* DataFrame.sample(frac=1): every ordering of the rows.
Perms(S) ==
  {q \in [1..Cardinality(S) -> S] : \A i, j \in 1..Cardinality(S) : q[i] = q[j] => i = j}

\* An empty dict / an empty csv body.
Empty == [x \in {} |-> 0]

\* ------------------------------------------------------------ csv reading
\* pandas.read_csv: cells it reads as missing (its default na_values).
NaStrings == {"", "NA", "N/A", "NaN", "nan", "null", "NULL", "None", "n/a", "<NA>", "#N/A"}

\* cells read_csv parses as integers.
IntLiterals == {"-1", "0", "1", "2", "5"}
IntOf(s) == CASE s = "-1" -> -1 [] s = "0" -> 0 [] s = "1" -> 1 [] s = "2" -> 2 [] s = "5" -> 5

\* A file on disk: absent, or the label column of the csv keyed by row key.
NoFile == [exists |-> FALSE, cells |-> Empty]
FileOf(c) == [exists |-> TRUE, cells |-> c]

\* dtype of the label column as read_csv infers it.
CsvDtype(cells) ==
  IF DOMAIN cells = {} THEN "object"
  ELSE IF \A r \in DOMAIN cells : cells[r] \in IntLiterals THEN "int"
  ELSE IF \A r \in DOMAIN cells : cells[r] \in IntLiterals \cup NaStrings THEN "float"
  ELSE "object"

\* existing_annotations[label_col] after the legacy conversion; "int" cells
\* index the vocabulary, "float" cells stay numbers, written here as text.
LegacyAbort(cells, vocab) ==
  /\ CsvDtype(cells) = "int"
  /\ \E r \in DOMAIN cells : ~PyInRange(vocab, IntOf(cells[r]))

ExistingLabel(cells, vocab, r) ==
  CASE CsvDtype(cells) = "int" -> PyIndex(vocab, IntOf(cells[r]))
    [] CsvDtype(cells) = "float" ->
         IF cells[r] \in NaStrings THEN NaN ELSE cells[r] \o ".0"
    [] OTHER -> IF cells[r] \in NaStrings THEN NaN ELSE cells[r]

\* the keys of a set of rows, in index order
SortedSeq(S) ==
  CHOOSE q \in [1..Cardinality(S) -> S] : \A i, j \in 1..Cardinality(S) : i < j => q[i] < q[j]

Range(s) == {s[i] : i \in DOMAIN s}

\* DataFrame.join(other, how=...) on the index, other's index unique: the
\* index of the result
JoinKeys(left, cells, how) ==
  CASE how = "left" -> left
    [] how = "inner" -> SelectSeq(left, LAMBDA k : k \in DOMAIN cells)
    [] how = "outer" -> left \o SortedSeq(DOMAIN cells \ Range(left))

\* the join as an outer join: rows of the file join the table
join_index_Outer(left, file) ==
  IF file.exists THEN JoinKeys(left, file.cells, "outer") ELSE left

\* the index of the table after __init__: patch_df.join(existing, how="left")
join_index(left, file) ==
  IF file.exists THEN JoinKeys(left, file.cells, "left") ELSE left

\* the merge with the precedence the other way round: label_x.fillna(label_y)
MergedLabel_FreshWins(file, vocab, fr, r) ==
  IF NotNa(fr[r]) \/ r \notin DOMAIN file.cells
  THEN fr[r]
  ELSE ExistingLabel(file.cells, vocab, r)

\* patch_df.join(existing, how="left"); label_y.fillna(label_x)
MergedLabel(file, vocab, fr, r) ==
  IF r \in DOMAIN file.cells /\ NotNa(ExistingLabel(file.cells, vocab, r))
  THEN ExistingLabel(file.cells, vocab, r)
  ELSE fr[r]

\* the label column after __init__
InitLabel(file, vocab, fr) ==
  IF file.exists THEN [r \in Rows |-> MergedLabel(file, vocab, fr, r)] ELSE fr

\* the changed column after __init__
InitChanged(file, lab) ==
  IF file.exists THEN [r \in Rows |-> Truthy(lab[r])] ELSE [r \in Rows |-> FALSE]

\* -------------------------------------------------------- session identity
\* image paths, in the order sorted() puts them
PathNames == <<"a.png", "b.png">>
Rank(p) == CHOOSE i \in DOMAIN PathNames : PathNames[i] = p

\* the image path columns of the tables handed to __init__
PathLists == UNION {[1..n -> Range(PathNames)] : n \in 0..MaxPaths}

\* sorted(patch_df[patch_paths_col].to_list()) as it is, unsorted
Unsorted(l) == l

\* sorted(patch_df[patch_paths_col].to_list())
Sorted(l) ==
  CHOOSE q \in [DOMAIN l -> Range(PathNames)] :
    /\ \A p \in Range(PathNames) :
         Cardinality({i \in DOMAIN l : q[i] = p}) = Cardinality({i \in DOMAIN l : l[i] = p})
    /\ \A i, j \in DOMAIN l : i < j => Rank(q[i]) <= Rank(q[j])

\* json.dumps of a list of strings
RECURSIVE JsonItems(_)
JsonItems(l) ==
  IF Len(l) = 0 THEN ""
  ELSE IF Len(l) = 1 THEN "\"" \o l[1] \o "\""
  ELSE "\"" \o l[1] \o "\", " \o JsonItems(Tail(l))
JsonDumps(l) == "[" \o JsonItems(l) \o "]"

\* hashlib.md5(...).hexdigest(): a digest that tells any two texts apart
Md5(text) == "md5(" \o text \o ")"

\* user names and task names handed to __init__
UserNames == {None, "u1"}
TaskNames == {None, "my task", "my_task"}

\* 30 random.choice characters
RandomNames == {"r1", "r2"}

\* task_name.replace(" ", "_")
ReplaceSpaces(t) == IF t = "my task" THEN "my_task" ELSE t

\* the image list __init__ hashes, without the sort
image_list_Unsorted(paths) == JsonDumps(Unsorted(paths))

\* image_list = json.dumps(sorted(...))
image_list(paths) == JsonDumps(Sorted(paths))

\* self.annotations_file, from the path column, username and task_name; rnd is
\* the random string drawn when no username is given
session_file(paths, username, task_name, rnd) ==
  LET user == IF Truthy(username) THEN username ELSE rnd
      task == IF Truthy(task_name) THEN task_name ELSE "task"
  IN "./annotations/" \o ReplaceSpaces(task) \o "_#" \o user \o "#-"
       \o Md5(image_list(paths)) \o ".csv"

\* one construction: what it was given and the file it resolved to
Identity(paths, username, task_name, rnd) ==
  [paths |-> paths, username |-> username, task_name |-> task_name,
   file |-> session_file(paths, username, task_name, rnd)]

NoSession == [paths |-> <<>>, username |-> None, task_name |-> None, file |-> ""]

\* ------------------------------------------------------------ csv literals
\* A cell of a table read from csv is a value written as a sequence: <<"int">>
\* and <<"tuple">> are native values (not str), <<"word">> is a str that is no
\* Python literal (patch-0-0), and <<"'">> \o v is the str whose text is the
\* literal of v: <<"'", "tuple">> is the text (0, 0, 10, 10), <<"'", "word">>
\* the text 'patch-0-0', <<"'", "'", "int">> the text '1'.
Atoms == {<<"int">>, <<"tuple">>, <<"word">>}
Quote(v) == <<"'">> \o v

RECURSIVE Quoted(_)
Quoted(k) == IF k = 0 THEN Atoms ELSE Atoms \cup {Quote(v) : v \in Quoted(k - 1)}
EvalValues == Quoted(MaxQuote)

\* ast.literal_eval(v): ValueError (malformed node) for what is not a str,
\* ValueError or SyntaxError for a str that is no literal
literal_eval_raises(v) == v[1] # "'"
literal_eval(v) == Tail(v)

\* df[col] = df[col].apply(literal_eval) inside try / except (ValueError,
\* TypeError, SyntaxError): pass -- the column is assigned only when every
\* cell was evaluated
eval_column(col) ==
  IF \E i \in DOMAIN col : literal_eval_raises(col[i])
  THEN col
  ELSE [i \in DOMAIN col |-> literal_eval(col[i])]

\* _eval_df(df): every column in turn
eval_df(df) == [c \in DOMAIN df |-> eval_column(df[c])]

\* the columns of the csv and the tables read_csv can give
CsvColumns == {"pixel_bounds", "label"}
CsvTables == [CsvColumns -> [1..MaxCells -> EvalValues]]

\* no table was read from csv: patch_df was handed over as a DataFrame
NoTable == [c \in {} |-> <<>>]

\* the table of patches as a csv file that __init__ reads
VARIABLES
  given,             \* pd.read_csv(patch_df, index_col=0, sep=delimiter)
  patch_df,          \* the table after the calls of _eval_df
  evals              \* calls of _eval_df on it

loaded == <<given, patch_df, evals>>

\* patch_df is a DataFrame: nothing is read, _eval_df is not called
NoCsv == given = NoTable /\ patch_df = NoTable /\ evals = 0

\* ------------------------------------------------------------ text spotting
\* DPTextDETRRunner (src/mapreader/spot_text/dptext_detr_runner.py).
\* The patches the runner is given, by os.path.basename of their image path
PatchImages == {"p1.png", "p2.png", "q1.png"}

\* patch_df.loc[image_id, "parent_id"] and patch_df.loc[image_id, "pixel_bounds"][0:2]
parent_of(img) == IF img = "q1.png" THEN "Q" ELSE "P"
min_xy(img) == IF img = "p2.png" THEN <<256, 0>> ELSE <<0, 0>>

\* the polygons of the instances the predictor returns for one image, each
\* written as one of its points
Polygons == {<<10, 10>>, <<20, 30>>}
Detections == UNION {[1..n -> Polygons] : n \in 0..MaxInstances}

\* A dict is the sequence of its (key, value) pairs in insertion order.
\* d[k] = v: the value of a key that is there is replaced where it stands, a
\* new key is added at the end
dict_set(d, k, v) ==
  IF \E i \in DOMAIN d : d[i][1] = k
  THEN [i \in DOMAIN d |-> IF d[i][1] = k THEN <<k, v>> ELSE d[i]]
  ELSE Append(d, <<k, v>>)

\* get_patch_predictions with _post_process: self.patch_predictions[image_id]
\* = [] and one [polygon, score] appended for each instance, the score as
\* the text f"{score:.2f}"
get_patch_predictions(d, img, polys) ==
  dict_set(d, img, [i \in DOMAIN polys |-> <<polys[i], "0.90">>])

\* the inner loop of convert_to_parent_pixel_bounds: the instances of one
\* patch moved by the patch's min_x and min_y
to_parent(img, prediction) ==
  [i \in DOMAIN prediction |->
     <<<<prediction[i][1][1] + min_xy(img)[1], prediction[i][1][2] + min_xy(img)[2]>>,
       prediction[i][2]>>]

\* convert_to_parent_pixel_bounds: for every (image_id, prediction) of
\* patch_predictions, the parent's list is created when the parent has none
\* and the moved instances are appended to it
convert_to_parent(d, pp) ==
  LET RECURSIVE From(_, _)
      From(i, acc) ==
        IF i > Len(d) THEN acc
        ELSE LET parent_id == parent_of(d[i][1])
                 old == IF parent_id \in DOMAIN acc THEN acc[parent_id] ELSE <<>>
             IN From(i + 1,
                     [p \in DOMAIN acc \cup {parent_id} |->
                        IF p = parent_id THEN old \o to_parent(d[i][1], d[i][2]) ELSE acc[p]])
  IN From(1, pp)

\* the runner
VARIABLES
  patch_predictions,   \* self.patch_predictions
  parent_predictions,  \* self.parent_predictions
  converts             \* calls of convert_to_parent_pixel_bounds so far

runner == <<patch_predictions, parent_predictions, converts>>

\* DPTextDETRRunner.__init__: both dictionaries empty
NewRunner ==
  /\ patch_predictions = <<>>
  /\ parent_predictions = [p \in {} |-> <<>>]
  /\ converts = 0

\* ------------------------------------------------------------------ row keys
\* A row key is a string, written as the sequence of its characters.
Digit(r) == <<"1", "2", "3", "4", "5", "6", "7", "8", "9">>[r]

\* ord(c) of the characters keys are written with
Ord(c) ==
  CASE c = "#" -> 35
    [] c = "-" -> 45
    [] c = "m" -> 109
    [] c = "n" -> 110
    [] c = "p" -> 112
    [] OTHER -> 48 + (CHOOSE d \in 1..9 : Digit(d) = c)

\* a < b for strings: the first character that differs decides, a proper
\* prefix is smaller
RECURSIVE StrLess(_, _)
StrLess(a, b) ==
  IF a = <<>> THEN b # <<>>
  ELSE IF b = <<>> THEN FALSE
  ELSE IF a[1] # b[1] THEN Ord(a[1]) < Ord(b[1])
  ELSE StrLess(Tail(a), Tail(b))

\* x.split('#'): the pieces between the '#' characters, the whole string when
\* there is none
RECURSIVE Split(_)
Split(x) ==
  IF \A i \in DOMAIN x : x[i] # "#" THEN <<x>>
  ELSE LET i == CHOOSE k \in DOMAIN x : x[k] = "#" /\ \A j \in 1..(k - 1) : x[j] # "#"
       IN <<SubSeq(x, 1, i - 1)>> \o Split(SubSeq(x, i + 1, Len(x)))

\* f"{x.split('#')[1]}-{x.split('#')[0]}" raises IndexError when split gives
\* one piece
sort_value_raises(x) == Len(Split(x)) < 2
sort_value(x) == Split(x)[2] \o <<"-">> \o Split(x)[1]

\* the key the patch loader gives row r of parent image m: "p<r>#m#"
PatchKey(r, m) == <<"p", Digit(r), "#", m, "#">>

\* a key of a table the caller indexed by patch name alone: "p<r>"
BareKey(r) == <<"p", Digit(r)>>

\* the index of a table of patches of one parent image
PatchKeys == [r \in Rows |-> PatchKey(r, "m")]

\* indexes of tables handed to __init__: each row keyed by the loader for one
\* of two parent images, or by patch name alone
KeyTables ==
  {k \in [Rows -> UNION {{PatchKey(r, "m"), PatchKey(r, "n"), BareKey(r)} : r \in Rows}] :
     \A r \in Rows : k[r] \in {PatchKey(r, "m"), PatchKey(r, "n"), BareKey(r)}}

\* ------------------------------------------------------------ context image
Tiles == 1..NumTiles
Parents == {"P1", "P2"}

\* the "shape" of a patch, (height, width), the same for every row of a table
Shapes == {<<256, 256>>, <<128, 256>>}

\* grid cells of a parent image that patches sit in
Cells == {0, 1}

\* parent_id, min_x and min_y of the rows of a table of patches of shape sh:
\* patches of parent P1, the last row of P1 or of another parent
Grids(sh) ==
  {g \in [Tiles -> [parent_id : Parents,
                    min_x : {c * sh[2] : c \in Cells},
                    min_y : {c * sh[1] : c \in Cells}]] :
     \A t \in Tiles : g[t].parent_id = "P2" => t = NumTiles}

\* self.max_size as __init__ defaults it
DefaultMaxSize == 1000

\* list(range(-surrounding, surrounding + 1))
Deltas(s) == [i \in 1..(2 * s + 1) |-> i - s - 1]

\* itertools.product(ys, xs) as a list: ys outer, xs inner
Product(ys, xs) ==
  [k \in 1..(Len(ys) * Len(xs)) |->
     <<ys[((k - 1) \div Len(xs)) + 1], xs[((k - 1) % Len(xs)) + 1]>>]

\* numpy.array_split(l, n): n sections, the first len % n one longer
SectionLen(len, n, i) == (len \div n) + (IF i <= len % n THEN 1 ELSE 0)
RECURSIVE SectionStart(_, _, _)
SectionStart(len, n, i) ==
  IF i = 1 THEN 0 ELSE SectionStart(len, n, i - 1) + SectionLen(len, n, i - 1)
ArraySplit(l, n) ==
  [i \in 1..n |-> [j \in 1..SectionLen(Len(l), n, i) |-> l[SectionStart(Len(l), n, i) + j]]]

\* parent_frame.query("min_x == x & min_y == y"): the rows of the focal row's
\* parent at that corner
Matches(g, ix, x, y) ==
  {t \in Tiles : /\ g[t].parent_id = g[ix].parent_id
                 /\ g[t].min_x = x
                 /\ g[t].min_y = y}

\* the patch images as files, and the index of the table
VARIABLES
  on_disk,           \* the rows whose image_path is a file that exists
  pixel,             \* a channel of a pixel of the patch images on disk
  row_key            \* self.index: the key of each row, a string

\* the values of one channel of one pixel of an 8-bit image
PixelValues == 0..255

\* Image.new(mode="RGB", color="white"): every channel of every pixel
White == 255

\* im_array.astype(np.uint8) of a value that has no fractional part left
AsUint8(x) == x % 256

\* a lighten step with 0.6 for its factor: 256 - (256 - old) * 0.6, which is
\* (1280 - 3 * (256 - old)) / 5, truncated
lighten_Factor60(old) == AsUint8((512 + 3 * old) \div 5)

\* 256 - (256 - im_array) * 0.4, then astype(np.uint8): the uint8 array is
\* promoted by the Python int 256, the product is a float64 and the cast
\* truncates. (256 - old) * 0.4 is 2 * (256 - old) / 5, so the value is
\* (1280 - 2 * (256 - old)) / 5 = (768 + 2 * old) / 5, which is positive, and
\* truncating it is integer division.
lighten(old) == AsUint8((768 + 2 * old) \div 5)

\* get_empty_square((width, height))
get_empty_square(width, height) ==
  [kind |-> "blank", id |-> 0, dimmed |-> FALSE, width |-> width, height |-> height,
   pixel |-> White]

\* get_path that lightens every patch it is given outside context mode
get_path_DimAll(t, dim, sh, ctx) ==
  [kind |-> "tile", id |-> t, dimmed |-> ~ctx, width |-> sh[2], height |-> sh[1],
   pixel |-> (IF ~ctx THEN lighten(pixel) ELSE pixel)]

\* get_path(image_path, dim): the patch image, lightened unless the session
\* annotates context; `pixel` of the result is what a pixel of the image file
\* has become
get_path(t, dim, sh, ctx) ==
  LET d == IF ctx THEN FALSE ELSE dim
  IN [kind |-> "tile", id |-> t, dimmed |-> d, width |-> sh[2], height |-> sh[1],
      pixel |-> (IF d THEN lighten(pixel) ELSE pixel)]

\* one slot of the composite from the rows matching its corner
Slot(g, sh, ix, ctx, x, y) ==
  LET m == Matches(g, ix, x, y)
  IN IF Cardinality(m) = 1
     THEN LET t == CHOOSE u \in m : TRUE IN get_path(t, t # ix, sh, ctx)
     ELSE get_empty_square(sh[2], sh[1])

\* the rows whose image get_context opens: the one row matching a slot's corner
Opened(g, sh, ix, s) ==
  LET deltas == Deltas(s)
  IN {t \in Tiles : \E i \in DOMAIN deltas, j \in DOMAIN deltas :
        Matches(g, ix, g[ix].min_x + deltas[j] * sh[2], g[ix].min_y + deltas[i] * sh[1]) = {t}}

\* Image.open(image_path) in get_path raises FileNotFoundError for a file
\* that is not there; nothing in get_context or render catches it
get_context_raises(g, sh, ix, s) == \E t \in Tiles \ on_disk : t \in Opened(g, sh, ix, s)

\* the same on a canvas one slot short in each direction
get_context_Short(g, sh, ix, s, ctx) ==
  LET height == sh[1]
      width == sh[2]
      deltas == Deltas(s)
      y_and_x == Product([i \in DOMAIN deltas |-> g[ix].min_y + deltas[i] * height],
                         [i \in DOMAIN deltas |-> g[ix].min_x + deltas[i] * width])
      slots == [k \in DOMAIN y_and_x |->
                       Slot(g, sh, ix, ctx, y_and_x[k][2], y_and_x[k][1])]
      canvas == <<2 * s * width, 2 * s * height>>
  IN [images |-> ArraySplit(slots, Len(deltas)),
      offsets |-> [i \in DOMAIN deltas |-> [j \in DOMAIN deltas |->
                     <<(j - 1) * width, (i - 1) * height>>]],
      focal |-> ix,
      canvas |-> canvas,
      scaled |-> (IF canvas[1] >= canvas[2] THEN canvas[1] ELSE canvas[2]) > DefaultMaxSize]

\* get_context(): the slots row by row, where each is pasted, the canvas
\* they are pasted on, and whether the canvas is then scaled down to max_size
get_context(g, sh, ix, s, ctx) ==
  LET height == sh[1]
      width == sh[2]
      deltas == Deltas(s)
      y_and_x == Product([i \in DOMAIN deltas |-> g[ix].min_y + deltas[i] * height],
                         [i \in DOMAIN deltas |-> g[ix].min_x + deltas[i] * width])
      slots == [k \in DOMAIN y_and_x |->
                       Slot(g, sh, ix, ctx, y_and_x[k][2], y_and_x[k][1])]
      canvas == <<(2 * s + 1) * width, (2 * s + 1) * height>>
  IN [images |-> ArraySplit(slots, Len(deltas)),
      offsets |-> [i \in DOMAIN deltas |-> [j \in DOMAIN deltas |->
                     <<(j - 1) * width, (i - 1) * height>>]],
      focal |-> ix,
      canvas |-> canvas,
      scaled |-> (IF canvas[1] >= canvas[2] THEN canvas[1] ELSE canvas[2]) > DefaultMaxSize]

\* no context image composed yet
NoComposite ==
  [images |-> <<>>, offsets |-> <<>>, focal |-> 0, canvas |-> <<0, 0>>, scaled |-> FALSE]

\* ------------------------------------------------------------- eligibility
\* the numeric feature column used by min_values / max_values
Score(r) == r

\* annotate() is the patch-level pass, annotate_context() the context-level one
Modes == {FALSE, TRUE}

MinChoices == {Empty, [c \in {"score"} |-> 2], [c \in {"score"} |-> 3]}
MaxChoices == {Empty, [c \in {"score"} |-> 2], [c \in {"score"} |-> 1]}

\* the test with `any(test)` in place of `all(test)`
check_eligibility_Any(lab, minv, maxv, r) ==
  /\ lab[r] = None
  /\ \/ DOMAIN minv \cup DOMAIN maxv = {}
     \/ \E c \in DOMAIN minv : Score(r) >= minv[c]
     \/ \E c \in DOMAIN maxv : Score(r) <= maxv[c]

check_eligibility(lab, minv, maxv, r) ==
  /\ lab[r] = None
  /\ \A c \in DOMAIN minv : Score(r) >= minv[c]
  /\ \A c \in DOMAIN maxv : Score(r) <= maxv[c]

Eligible(lab, minv, maxv) == {r \in Rows : check_eligibility(lab, minv, maxv, r)}

get_queue(lab, minv, maxv) == Perms(Eligible(lab, minv, maxv))

\* ------------------------------------------------------------------ state
VARIABLES
  labels,            \* self._labels, the vocabulary
  auto_save,         \* self.auto_save
  fresh,             \* the label column of the table handed to __init__
  index,             \* self.index, the row keys of the table
  identity,          \* path column, username, task_name and file of this construction
  earlier,           \* the same of the construction before it
  shape,             \* the "shape" column: (height, width) of the patches
  grid,              \* the parent_id, min_x and min_y columns
  surrounding,       \* self.surrounding
  composite,         \* self._context_image, as get_context composed it
  setup,             \* the labels and sortby arguments of __init__
  label,             \* self[label_col]
  changed,           \* self["changed"]
  has_context,       \* "context_label" in self.columns
  context_label,     \* self["context_label"]
  context_changed,   \* self["context_changed"]
  annotate_context,  \* self._annotate_context
  min_values,        \* self._min_values
  max_values,        \* self._max_values
  queue,             \* self._queue
  current_index,     \* self.current_index
  previous_index,    \* self.previous_index
  disabled,          \* button.disabled of the label buttons
  annotations_file,  \* the csv at self.annotations_file
  context_file,      \* the csv at annotations_file[:-4] + "_context.csv"
  out,               \* what the last operation did
  passes,            \* annotate() / annotate_context() calls of this session
  restarts           \* sessions constructed after the first

vars == <<given, patch_df, evals, patch_predictions, parent_predictions, converts,
          labels, auto_save, fresh, index, identity, earlier, shape, grid, surrounding,
          on_disk, pixel, row_key, composite, setup, label, changed, has_context, context_label,
          context_changed, annotate_context, min_values, max_values, queue,
          current_index, previous_index, disabled, annotations_file,
          context_file, out, passes, restarts>>

geometry == <<shape, grid, surrounding, on_disk, pixel>>
config == <<labels, auto_save, fresh, geometry, row_key, composite, setup, loaded, runner>>
ident == <<identity, earlier>>
counters == <<passes, restarts>>
table == <<label, changed, has_context, context_label, context_changed>>
files == <<annotations_file, context_file>>

Vocabularies == {<<"a", "b">>, <<"a", "NA">>}

LabelSet(vocab) == {vocab[i] : i \in DOMAIN vocab}

\* tables handed to __init__: a label column of None (added by __init__), or
\* one that already carries values in a few rows
FreshTables(vocab) ==
  {f \in [Rows -> {None, NaN} \cup LabelSet(vocab)] :
     Cardinality({r \in Rows : f[r] # None}) <= MaxPrelabelled}

\* session files present before the first construction
PriorFiles(vocab) ==
  {NoFile} \cup
  {FileOf(c) : c \in UNION {[S -> LabelSet(vocab)] :
                              S \in {T \in SUBSET FileKeys : Cardinality(T) <= MaxPriorRows}}}

\* session files in the old format: the label column holds vocabulary indices
LegacyFiles ==
  {FileOf(c) : c \in UNION {[S -> IntLiterals] :
                              S \in {T \in SUBSET FileKeys :
                                       T # {} /\ Cardinality(T) <= MaxPriorRows}}}

NoneColumn == [r \in Rows |-> None]
FalseColumn == [r \in Rows |-> FALSE]

\* read: __init__ read the session file; mkdir: it created annotations_dir;
\* rows: the rows _auto_save wrote, in the order it wrote them
Out(op, res, ret, wrote) ==
  [op |-> op, res |-> res, ret |-> ret, wrote |-> wrote, read |-> FALSE, mkdir |-> FALSE,
   rows |-> <<>>]

\* columns of the table that sortby can name
Columns == {"score", "label", "image_path"}

\* values of the `delimiter` argument: its default and another separator
Delimiters == {",", ";"}

\* DataFrame.to_csv(save_name) in _auto_save: no sep is passed, so the file is
\* written with the default of to_csv whatever the delimiter argument was
to_csv_sep == ","

\* the columns of pd.read_csv(annotations_file, index_col=0, sep=d) for a file
\* _auto_save wrote: with another separator every line is one field, that
\* field is the index, and no column is left
read_csv_columns(d) == IF d = to_csv_sep THEN {"image_path", "label"} ELSE {}

\* values of the `label_col` argument: its default and another column name.
\* The table handed to __init__ has the columns the patch loader makes and
\* the column named label_col (added at lines 184-185 when it is missing), so
\* it has a column "label" only when label_col is "label".
LabelCols == {"label", "class"}

\* check_eligibility reads `row.label`, the attribute of that fixed name: a
\* row of a table with no column "label" has none, and the apply in
\* get_queue, called last in __init__, raises AttributeError
get_queue_raises(st) == st.label_col # "label"

\* the `labels`, `sortby`, `delimiter` and `label_col` arguments: labels a
\* list or not; sortby None, a column, a string that is no column, or no
\* string at all
Setups == [labels_is_list : BOOLEAN, sortby : {None, "score", "nope", "<int 5>"},
           delimiter : Delimiters, label_col : LabelCols]
ValidSetup == [labels_is_list |-> TRUE, sortby |-> None, delimiter |-> ",",
               label_col |-> "label"]

\* __init__ with the vocabulary tested only after the session file is read
init_result_ReadFirst(st, f, vocab) ==
  IF f.exists /\ st.label_col \notin read_csv_columns(st.delimiter)
  THEN [res |-> "ValueError", read |-> TRUE, mkdir |-> FALSE]
  ELSE IF f.exists /\ LegacyAbort(f.cells, vocab)
  THEN [res |-> "IndexError", read |-> TRUE, mkdir |-> FALSE]
  ELSE IF ~st.labels_is_list
  THEN [res |-> "SyntaxError", read |-> f.exists, mkdir |-> FALSE]
  ELSE IF st.sortby \notin {None} \cup Columns
  THEN [res |-> "ValueError", read |-> f.exists, mkdir |-> FALSE]
  ELSE IF get_queue_raises(st)
  THEN [res |-> "AttributeError", read |-> f.exists, mkdir |-> TRUE]
  ELSE [res |-> "ok", read |-> f.exists, mkdir |-> TRUE]

\* how __init__ ends, in the order of its statements: the vocabulary test,
\* the read of the session file and the test for its label column, the
\* conversion of vocabulary indices, the sortby test, Path(...).mkdir,
\* get_queue
init_result(st, f, vocab) ==
  IF ~st.labels_is_list
  THEN [res |-> "SyntaxError", read |-> FALSE, mkdir |-> FALSE]
  ELSE IF f.exists /\ st.label_col \notin read_csv_columns(st.delimiter)
  THEN [res |-> "ValueError", read |-> TRUE, mkdir |-> FALSE]
  ELSE IF f.exists /\ LegacyAbort(f.cells, vocab)
  THEN [res |-> "IndexError", read |-> TRUE, mkdir |-> FALSE]
  ELSE IF st.sortby \notin {None} \cup Columns
  THEN [res |-> "ValueError", read |-> f.exists, mkdir |-> FALSE]
  ELSE IF get_queue_raises(st)
  THEN [res |-> "AttributeError", read |-> f.exists, mkdir |-> TRUE]
  ELSE [res |-> "ok", read |-> f.exists, mkdir |-> TRUE]

\* self.sort_values(sortby): the index in the order of the score column
sort_values(st, idx) == IF st.sortby = "score" THEN SortedSeq(Range(idx)) ELSE idx

\* __init__ from the file on disk f
Construct(f, idx, lab, ch, hc, cl, cc, ac, mn, mx, q, ci, pi, dis, o) ==
  IF init_result(setup, f, labels).res # "ok"
  THEN /\ idx = FreshIndex
       /\ lab = fresh /\ ch = FalseColumn /\ hc = FALSE
       /\ cl = NoneColumn /\ cc = FalseColumn /\ ac = FALSE
       /\ mn = Empty /\ mx = Empty /\ q = <<>> /\ ci = -1 /\ pi = 0
       /\ dis = FALSE
       /\ o = [Out("init", init_result(setup, f, labels).res, 0, 0)
                 EXCEPT !.read = init_result(setup, f, labels).read,
                        !.mkdir = init_result(setup, f, labels).mkdir]
  ELSE /\ idx = sort_values(setup, join_index(FreshIndex, f))
       /\ lab = InitLabel(f, labels, fresh)
       /\ ch = InitChanged(f, lab)
       /\ hc = FALSE /\ cl = NoneColumn /\ cc = FalseColumn /\ ac = FALSE
       /\ mn = Empty /\ mx = Empty
       /\ ci = -1 /\ pi = 0
       /\ q \in get_queue(lab, mn, mx)
       /\ dis = FALSE
       /\ o = [Out("init", "ok", 0, 0)
                 EXCEPT !.read = init_result(setup, f, labels).read,
                        !.mkdir = init_result(setup, f, labels).mkdir]

\* the patches of one parent image, two by two
PlainGrid ==
  /\ shape = <<256, 256>>
  /\ grid = [t \in Tiles |-> [parent_id |-> "P1",
                               min_x |-> ((t - 1) % 2) * 256,
                               min_y |-> (((t - 1) \div 2) % 2) * 256]]

\* a table of four patches that tile one parent image two by two, every image
\* on disk
PlainGeometry ==
  /\ PlainGrid
  /\ surrounding = 1
  /\ on_disk = Tiles
  /\ pixel = 0
  /\ composite = NoComposite

\* one session over a table with no labels yet and no session file on disk
Init ==
  /\ labels = <<"a", "b">>
  /\ auto_save \in BOOLEAN
  /\ fresh = NoneColumn
  /\ identity = Identity(<<"b.png", "a.png">>, "u1", None, "r1")
  /\ earlier = NoSession
  /\ PlainGeometry
  /\ setup = ValidSetup
  /\ row_key = PatchKeys
  /\ NoCsv
  /\ NewRunner
  /\ annotations_file = NoFile
  /\ context_file = NoFile
  /\ Construct(annotations_file, index, label, changed, has_context, context_label,
               context_changed, annotate_context, min_values, max_values,
               queue, current_index, previous_index, disabled, out)
  /\ passes = 0
  /\ restarts = 0

\* first construction over any supplied table, with or without a session file
InitResume ==
  /\ labels \in Vocabularies
  /\ auto_save \in BOOLEAN
  /\ fresh \in FreshTables(labels)
  /\ identity = Identity(<<"b.png", "a.png">>, "u1", None, "r1")
  /\ earlier = NoSession
  /\ PlainGeometry
  /\ setup = ValidSetup
  /\ row_key = PatchKeys
  /\ NoCsv
  /\ NewRunner
  /\ annotations_file \in PriorFiles(labels)
  /\ context_file = NoFile
  /\ Construct(annotations_file, index, label, changed, has_context, context_label,
               context_changed, annotate_context, min_values, max_values,
               queue, current_index, previous_index, disabled, out)
  /\ passes = 0
  /\ restarts = 0

\* first construction over an unlabelled table and an old-format session file
InitLegacy ==
  /\ labels = <<"a", "b">>
  /\ auto_save \in BOOLEAN
  /\ fresh = NoneColumn
  /\ identity = Identity(<<"b.png", "a.png">>, "u1", None, "r1")
  /\ earlier = NoSession
  /\ PlainGeometry
  /\ setup = ValidSetup
  /\ row_key = PatchKeys
  /\ NoCsv
  /\ NewRunner
  /\ annotations_file \in LegacyFiles
  /\ context_file = NoFile
  /\ Construct(annotations_file, index, label, changed, has_context, context_label,
               context_changed, annotate_context, min_values, max_values,
               queue, current_index, previous_index, disabled, out)
  /\ passes = 0
  /\ restarts = 0

\* first construction with any labels and sortby arguments, with or without a
\* session file
InitConfig ==
  /\ labels = <<"a", "b">>
  /\ auto_save = TRUE
  /\ fresh = NoneColumn
  /\ identity = Identity(<<"b.png", "a.png">>, "u1", None, "r1")
  /\ earlier = NoSession
  /\ PlainGeometry
  /\ setup \in Setups
  /\ row_key = PatchKeys
  /\ NoCsv
  /\ NewRunner
  /\ annotations_file \in PriorFiles(labels) \cup LegacyFiles
  /\ context_file = NoFile
  /\ Construct(annotations_file, index, label, changed, has_context, context_label,
               context_changed, annotate_context, min_values, max_values,
               queue, current_index, previous_index, disabled, out)
  /\ passes = 0
  /\ restarts = 0

\* a session object exists: construction did not raise, the process was not
\* killed
Alive == ~(out.op = "init" /\ out.res # "ok") /\ out.op # "crash"

\* the widgets are on screen: _annotate displays them and steps the cursor
Displayed == Alive /\ current_index # -1

\* ------------------------------------------------------------------ saving
\* get_labelled_data(sort=True): the rows whose active label is not missing
get_labelled_data(ctx, lab, cl) ==
  LET col == IF ctx THEN cl ELSE lab
  IN [r \in {x \in Rows : NotNa(col[x])} |-> col[r]]

\* get_labelled_data(sort=True): the sort_value column cannot be built, the
\* key of a labelled row has no '#'
sort_raises(ctx, lab, cl) ==
  \E r \in DOMAIN get_labelled_data(ctx, lab, cl) : sort_value_raises(row_key[r])

\* filtered_df.sort_values("sort_value"): the labelled rows in the order of
\* their sort values
sorted_rows(ctx, lab, cl) ==
  LET S == DOMAIN get_labelled_data(ctx, lab, cl)
  IN CHOOSE q \in Perms(S) :
       \A i, j \in DOMAIN q :
         i < j => ~StrLess(sort_value(row_key[q[j]]), sort_value(row_key[q[i]]))

\* _auto_save with save_name = self.annotations_file in either mode
SavedPatch_AnyMode(ctx, lab, cl, af) == FileOf(get_labelled_data(ctx, lab, cl))

\* _auto_save: (annotations_file, context_file) after the write; nothing is
\* written when get_labelled_data raises
SavedPatch(ctx, lab, cl, af) ==
  IF ctx \/ sort_raises(ctx, lab, cl) THEN af ELSE FileOf(get_labelled_data(ctx, lab, cl))
SavedContext(ctx, lab, cl, cf) ==
  IF ctx /\ ~sort_raises(ctx, lab, cl) THEN FileOf(get_labelled_data(ctx, lab, cl)) ELSE cf

\* DataFrame.to_csv(save_name) writes into the file it opened and truncated:
\* what is on disk when the process dies before the write is through, the
\* rows in index order up to some row
PartialWrites(cells) ==
  {FileOf([r \in {x \in DOMAIN cells : x <= k} |-> cells[r]]) : k \in 0..NumRows}

\* ---------------------------------------------------------------- cursor
\* render(): completes instead of displaying at the last row of the table
render(ci) == IF ci >= NumRows - 1 THEN "complete" ELSE "rendered"

\* _next_example without the test for the terminal position
next_example_NoTerminal(q, ci, pi) ==
  IF ~PyInRange(q, ci + 1)
  THEN [cur |-> ci + 1, prev |-> ci, res |-> "IndexError", ret |-> 0]
  ELSE [cur |-> ci + 1, prev |-> ci, res |-> render(ci + 1), ret |-> PyIndex(q, ci + 1)]

\* _next_example: the cursor, and what was signalled
next_example(q, ci, pi) ==
  IF ci = Len(q)
  THEN [cur |-> ci, prev |-> pi, res |-> "complete", ret |-> 0]
  ELSE IF ~PyInRange(q, ci + 1)
  THEN [cur |-> ci + 1, prev |-> ci, res |-> "IndexError", ret |-> 0]
  ELSE [cur |-> ci + 1, prev |-> ci, res |-> render(ci + 1), ret |-> PyIndex(q, ci + 1)]

\* _prev_example without the `current_index > 0` test
prev_example_Unguarded(q, ci, pi) ==
  IF ci = Len(q)
  THEN [cur |-> ci, prev |-> pi, res |-> "complete", ret |-> 0]
  ELSE IF ~PyInRange(q, ci - 1)
  THEN [cur |-> ci - 1, prev |-> ci, res |-> "IndexError", ret |-> 0]
  ELSE [cur |-> ci - 1, prev |-> ci, res |-> render(ci - 1), ret |-> PyIndex(q, ci - 1)]

\* _prev_example
prev_example(q, ci, pi) ==
  IF ci = Len(q)
  THEN [cur |-> ci, prev |-> pi, res |-> "complete", ret |-> 0]
  ELSE LET c == IF ci > 0 THEN ci - 1 ELSE ci
           p == IF ci > 0 THEN ci ELSE pi
       IN IF ~PyInRange(q, c)
          THEN [cur |-> c, prev |-> p, res |-> "IndexError", ret |-> 0]
          ELSE [cur |-> c, prev |-> p, res |-> render(c), ret |-> PyIndex(q, c)]

\* render_complete that saves whatever auto_save says
complete_patch_Always(res, ctx, lab, cl, af) ==
  IF res = "complete" THEN SavedPatch(ctx, lab, cl, af) ELSE af

\* render_complete: the file _auto_save writes, when the step completed
complete_patch(res, ctx, lab, cl, af) ==
  IF res = "complete" /\ auto_save THEN SavedPatch(ctx, lab, cl, af) ELSE af
complete_context(res, ctx, lab, cl, cf) ==
  IF res = "complete" /\ auto_save THEN SavedContext(ctx, lab, cl, cf) ELSE cf

\* render_complete: what the step signals; an exception of _auto_save leaves
\* render_complete before it disables the buttons
render_result(res, ctx, lab, cl) ==
  IF res = "complete" /\ auto_save /\ sort_raises(ctx, lab, cl) THEN "IndexError" ELSE res

\* ---------------------------------------------------------------- actions
\* _annotate that leaves the cursor where the last pass ended
reset_index_Keep(ci) == ci

\* _annotate: self.current_index = -1
reset_index(ci) == -1

\* annotate() / annotate_context() -> _annotate
Annotate(ctx, mn, mx) ==
  /\ Alive
  /\ passes < MaxPasses
  /\ passes' = passes + 1
  /\ restarts' = restarts
  /\ annotate_context' = ctx
  /\ has_context' = (has_context \/ ctx)
  /\ min_values' = mn
  /\ max_values' = mx
  /\ \E q \in get_queue(label, mn, mx) :
       LET n == next_example(q, reset_index(current_index), previous_index)
       IN /\ queue' = q
          /\ current_index' = n.cur
          /\ previous_index' = n.prev
          /\ disabled' = (render_result(n.res, ctx, label, context_label) = "complete")
          /\ annotations_file' = complete_patch(n.res, ctx, label, context_label, annotations_file)
          /\ context_file' = complete_context(n.res, ctx, label, context_label, context_file)
          /\ out' = Out(IF ctx THEN "annotate_context" ELSE "annotate",
                        render_result(n.res, ctx, label, context_label), n.ret, 0)
  /\ UNCHANGED <<config, index, ident, label, changed, context_label, context_changed>>

\* the "next" button
NextExample ==
  /\ Displayed
  /\ LET n == next_example(queue, current_index, previous_index)
     IN /\ current_index' = n.cur
        /\ previous_index' = n.prev
        /\ disabled' =
             (disabled \/ render_result(n.res, annotate_context, label, context_label) = "complete")
        /\ annotations_file' =
             complete_patch(n.res, annotate_context, label, context_label, annotations_file)
        /\ context_file' =
             complete_context(n.res, annotate_context, label, context_label, context_file)
        /\ out' = Out("advance", render_result(n.res, annotate_context, label, context_label),
                      n.ret, 0)
  /\ UNCHANGED <<config, index, ident, counters, table, annotate_context, min_values, max_values, queue>>

\* the "previous" button
PrevExample ==
  /\ Displayed
  /\ LET n == prev_example(queue, current_index, previous_index)
     IN /\ current_index' = n.cur
        /\ previous_index' = n.prev
        /\ disabled' =
             (disabled \/ render_result(n.res, annotate_context, label, context_label) = "complete")
        /\ annotations_file' =
             complete_patch(n.res, annotate_context, label, context_label, annotations_file)
        /\ context_file' =
             complete_context(n.res, annotate_context, label, context_label, context_file)
        /\ out' = Out("retreat", render_result(n.res, annotate_context, label, context_label),
                      n.ret, 0)
  /\ UNCHANGED <<config, index, ident, counters, table, annotate_context, min_values, max_values, queue>>

\* _add_annotation that advances without saving
record_patch_NoSave(ctx, lab, cl, af) == af

\* _add_annotation: the file after the save that follows the write
record_patch(ctx, lab, cl, af) == IF auto_save THEN SavedPatch(ctx, lab, cl, af) ELSE af
record_context(ctx, lab, cl, cf) == IF auto_save THEN SavedContext(ctx, lab, cl, cf) ELSE cf

\* _add_annotation that writes to the first row of the queue
focal_row_First(q, ci) == q[1]

\* ix = self._queue[self.current_index]
focal_row(q, ci) == PyIndex(q, ci)

\* a label button: _add_annotation(annotation)
AddAnnotation(annotation) ==
  /\ Displayed
  /\ ~disabled
  /\ IF ~PyInRange(queue, current_index)
     THEN /\ out' = Out("record", "IndexError", 0, 0)
          /\ UNCHANGED <<table, current_index, previous_index, disabled, files>>
     ELSE LET ix == focal_row(queue, current_index)
              lab == IF annotate_context THEN label ELSE [label EXCEPT ![ix] = annotation]
              cl == IF annotate_context
                    THEN [context_label EXCEPT ![ix] = annotation] ELSE context_label
              n == next_example(queue, current_index, previous_index)
          IN /\ label' = lab
             /\ context_label' = cl
             /\ changed' = IF annotate_context THEN changed ELSE [changed EXCEPT ![ix] = TRUE]
             /\ context_changed' =
                  IF annotate_context
                  THEN [context_changed EXCEPT ![ix] = TRUE] ELSE context_changed
             /\ has_context' = has_context
             /\ IF auto_save /\ sort_raises(annotate_context, lab, cl)
                THEN /\ out' = Out("record", "IndexError", 0, ix)
                     /\ UNCHANGED <<current_index, previous_index, disabled, files>>
                ELSE /\ current_index' = n.cur
                     /\ previous_index' = n.prev
                     /\ disabled' = (n.res = "complete")
                     /\ annotations_file' =
                          complete_patch(n.res, annotate_context, lab, cl,
                                         record_patch(annotate_context, lab, cl, annotations_file))
                     /\ context_file' =
                          complete_context(n.res, annotate_context, lab, cl,
                                           record_context(annotate_context, lab, cl, context_file))
                     /\ out' = Out("record", n.res, n.ret, ix)
  /\ UNCHANGED <<config, index, ident, counters, annotate_context, min_values, max_values, queue>>

\* _auto_save called on its own
AutoSave ==
  /\ Alive
  /\ annotations_file' = SavedPatch(annotate_context, label, context_label, annotations_file)
  /\ context_file' = SavedContext(annotate_context, label, context_label, context_file)
  /\ out' = IF sort_raises(annotate_context, label, context_label)
            THEN Out("save", "IndexError", 0, 0)
            ELSE [Out("save", "ok", 0, 0)
                    EXCEPT !.rows = sorted_rows(annotate_context, label, context_label)]
  /\ UNCHANGED <<config, index, ident, counters, table, annotate_context, min_values, max_values,
                 queue, current_index, previous_index, disabled>>

\* the process is killed while _auto_save writes the session file
SaveCrash ==
  /\ Alive
  /\ ~annotate_context
  /\ annotations_file' \in PartialWrites(get_labelled_data(FALSE, label, context_label))
  /\ out' = Out("crash", "killed", 0, 0)
  /\ UNCHANGED <<config, index, ident, counters, table, context_file, annotate_context,
                 min_values, max_values, queue, current_index, previous_index, disabled>>

\* a new session over the same table, user and task: __init__ again
Restart ==
  /\ restarts < MaxRestarts
  /\ restarts' = restarts + 1
  /\ passes' = 0
  /\ earlier' = identity
  /\ \E rnd \in RandomNames :
       identity' = Identity(identity.paths, identity.username, identity.task_name, rnd)
  /\ Construct(annotations_file, index', label', changed', has_context', context_label',
               context_changed', annotate_context', min_values', max_values',
               queue', current_index', previous_index', disabled', out')
  /\ UNCHANGED <<config, files>>

\* one session: passes, navigation and labelling
Next ==
  \/ \E ctx \in Modes, mn \in MinChoices, mx \in MaxChoices : Annotate(ctx, mn, mx)
  \/ NextExample
  \/ PrevExample
  \/ \E a \in LabelSet(labels) : AddAnnotation(a)

Spec == Init /\ [][Next]_vars

\* sessions that are saved and constructed again
NextResume ==
  \/ Annotate(FALSE, Empty, Empty)
  \/ NextExample
  \/ \E a \in LabelSet(labels) : AddAnnotation(a)
  \/ AutoSave
  \/ Restart

SpecResume == InitResume /\ [][NextResume]_vars

SpecLegacy == InitLegacy /\ [][NextResume]_vars

\* sessions that label rows in queue order, saving each, and are constructed
\* again
NextConfig ==
  \/ Annotate(FALSE, Empty, Empty)
  \/ \E a \in LabelSet(labels) : AddAnnotation(a)
  \/ Restart

SpecConfig == InitConfig /\ [][NextConfig]_vars

\* sessions that can be killed while they save
NextCrash ==
  \/ Annotate(FALSE, Empty, Empty)
  \/ NextExample
  \/ \E a \in LabelSet(labels) : AddAnnotation(a)
  \/ AutoSave
  \/ SaveCrash
  \/ Restart

SpecCrash == Init /\ [][NextCrash]_vars

\* sessions in either mode that label rows, saving each, and are constructed
\* again
NextSuspend ==
  \/ \E ctx \in Modes : Annotate(ctx, Empty, Empty)
  \/ \E a \in LabelSet(labels) : AddAnnotation(a)
  \/ Restart

SpecSuspend == Init /\ [][NextSuspend]_vars

\* one session in either mode over any supplied table, with or without a
\* session file
NextModes ==
  \/ \E ctx \in Modes : Annotate(ctx, Empty, Empty)
  \/ \E a \in LabelSet(labels) : AddAnnotation(a)

SpecModes == InitResume /\ [][NextModes]_vars

\* one session over a table with any index, no labels yet and no session file
InitSort ==
  /\ labels = <<"a", "b">>
  /\ auto_save = TRUE
  /\ fresh = NoneColumn
  /\ identity = Identity(<<"b.png", "a.png">>, "u1", None, "r1")
  /\ earlier = NoSession
  /\ PlainGeometry
  /\ setup = ValidSetup
  /\ row_key \in KeyTables
  /\ NoCsv
  /\ NewRunner
  /\ annotations_file = NoFile
  /\ context_file = NoFile
  /\ Construct(annotations_file, index, label, changed, has_context, context_label,
               context_changed, annotate_context, min_values, max_values,
               queue, current_index, previous_index, disabled, out)
  /\ passes = 0
  /\ restarts = 0

\* sessions that label rows and save
NextSort ==
  \/ Annotate(FALSE, Empty, Empty)
  \/ NextExample
  \/ \E a \in LabelSet(labels) : AddAnnotation(a)
  \/ AutoSave

SpecSort == InitSort /\ [][NextSort]_vars

\* a construction over any path column, username and task name: the session
\* file it resolves to
NewSession(paths, username, task_name) ==
  /\ earlier' = identity
  /\ \E rnd \in RandomNames : identity' = Identity(paths, username, task_name, rnd)
  /\ UNCHANGED <<config, index, counters, table, files, annotate_context, min_values,
                 max_values, queue, current_index, previous_index, disabled, out>>

\* constructions over a table that arrives labelled: the queue is empty
InitIdentity ==
  /\ labels = <<"a", "b">>
  /\ auto_save = TRUE
  /\ fresh = [r \in Rows |-> "a"]
  /\ \E paths \in PathLists, username \in UserNames, task_name \in TaskNames,
        rnd \in RandomNames : identity = Identity(paths, username, task_name, rnd)
  /\ earlier = NoSession
  /\ PlainGeometry
  /\ setup = ValidSetup
  /\ row_key = PatchKeys
  /\ NoCsv
  /\ NewRunner
  /\ annotations_file = NoFile
  /\ context_file = NoFile
  /\ Construct(annotations_file, index, label, changed, has_context, context_label,
               context_changed, annotate_context, min_values, max_values,
               queue, current_index, previous_index, disabled, out)
  /\ passes = 0
  /\ restarts = 0

NextIdentity ==
  \E paths \in PathLists, username \in UserNames, task_name \in TaskNames :
    NewSession(paths, username, task_name)

SpecIdentity == InitIdentity /\ [][NextIdentity]_vars

\* render() with show_context, the cursor on row ix: get_context()
GetContext(ix) ==
  /\ Alive
  /\ IF get_context_raises(grid, shape, ix, surrounding)
     THEN /\ out' = Out("render", "FileNotFoundError", ix, 0)
          /\ UNCHANGED composite
     ELSE /\ out' = Out("render", "ok", ix, 0)
          /\ composite' = get_context(grid, shape, ix, surrounding, annotate_context)
  /\ UNCHANGED <<labels, auto_save, fresh, geometry, row_key, setup, loaded, runner, index,
                 ident, counters, table, files, annotate_context, min_values, max_values, queue, current_index,
                 previous_index, disabled>>

\* sessions in patch mode or context mode over any table geometry
InitContext ==
  /\ labels = <<"a", "b">>
  /\ auto_save = TRUE
  /\ fresh = NoneColumn
  /\ identity = Identity(<<"b.png", "a.png">>, "u1", None, "r1")
  /\ earlier = NoSession
  /\ shape \in Shapes
  /\ grid \in Grids(shape)
  /\ surrounding \in 0..MaxSurrounding
  /\ on_disk = Tiles
  /\ pixel = 0
  /\ composite = NoComposite
  /\ setup = ValidSetup
  /\ row_key = PatchKeys
  /\ NoCsv
  /\ NewRunner
  /\ annotations_file = NoFile
  /\ context_file = NoFile
  /\ index = FreshIndex
  /\ label = NoneColumn /\ changed = FalseColumn
  /\ context_label = NoneColumn /\ context_changed = FalseColumn
  /\ annotate_context \in BOOLEAN
  /\ has_context = annotate_context
  /\ min_values = Empty /\ max_values = Empty
  /\ queue = FreshIndex
  /\ current_index = 0 /\ previous_index = -1
  /\ disabled = FALSE
  /\ out = Out(IF annotate_context THEN "annotate_context" ELSE "annotate", "rendered", 1, 0)
  /\ passes = 1
  /\ restarts = 0

NextContext == \E ix \in Tiles : GetContext(ix)

SpecContext == InitContext /\ [][NextContext]_vars

\* a session in patch mode or context mode at its first row, rendered
Rendering ==
  /\ labels = <<"a", "b">>
  /\ auto_save = TRUE
  /\ fresh = NoneColumn
  /\ identity = Identity(<<"b.png", "a.png">>, "u1", None, "r1")
  /\ earlier = NoSession
  /\ setup = ValidSetup
  /\ row_key = PatchKeys
  /\ annotations_file = NoFile
  /\ context_file = NoFile
  /\ index = FreshIndex
  /\ label = NoneColumn /\ changed = FalseColumn
  /\ context_label = NoneColumn /\ context_changed = FalseColumn
  /\ annotate_context \in BOOLEAN
  /\ has_context = annotate_context
  /\ min_values = Empty /\ max_values = Empty
  /\ queue = FreshIndex
  /\ current_index = 0 /\ previous_index = -1
  /\ disabled = FALSE
  /\ out = Out(IF annotate_context THEN "annotate_context" ELSE "annotate", "rendered", 1, 0)
  /\ passes = 1
  /\ restarts = 0

\* the patches of one parent, two by two, some of their image files deleted
\* since the table was made
InitMissing ==
  /\ Rendering
  /\ NoCsv
  /\ NewRunner
  /\ PlainGrid
  /\ surrounding \in 0..MaxSurrounding
  /\ on_disk \in SUBSET Tiles
  /\ pixel = 0
  /\ composite = NoComposite

SpecMissing == InitMissing /\ [][NextContext]_vars

\* the same patches, all on disk, for every value a pixel of them can have
InitDim ==
  /\ Rendering
  /\ NoCsv
  /\ NewRunner
  /\ PlainGrid
  /\ surrounding = 1
  /\ on_disk = Tiles
  /\ pixel \in PixelValues
  /\ composite = NoComposite

SpecDim == InitDim /\ [][NextContext]_vars

\* __init__ with patch_df a path: read_csv, then _eval_df; _eval_df once more
\* on the table it returned
EvalDf ==
  /\ evals < MaxEvals
  /\ evals' = evals + 1
  /\ patch_df' = eval_df(patch_df)
  /\ UNCHANGED <<given, runner, labels, auto_save, fresh, geometry, row_key, composite, setup,
                 index, ident, counters, table, files, annotate_context, min_values,
                 max_values, queue, current_index, previous_index, disabled, out>>

\* a session whose table of patches is still as read_csv returned it
InitEval ==
  /\ Rendering
  /\ PlainGeometry
  /\ given \in CsvTables
  /\ patch_df = given
  /\ evals = 0
  /\ NewRunner

NextEval == EvalDf

SpecEval == InitEval /\ [][NextEval]_vars

\* the state of the annotation session, which the runner does not touch
session == <<labels, auto_save, fresh, geometry, row_key, composite, setup, loaded, index,
             ident, counters, table, files, annotate_context, min_values, max_values,
             queue, current_index, previous_index, disabled>>

\* run_on_image(img_path) -> get_patch_predictions(outputs)
RunOnImage(img, polys) ==
  /\ patch_predictions' = get_patch_predictions(patch_predictions, img, polys)
  /\ out' = Out("run_on_image", "ok", 0, 0)
  /\ UNCHANGED <<parent_predictions, converts, session>>

\* convert_to_parent_pixel_bounds() with the patch_df given to __init__
ConvertToParent ==
  /\ converts < MaxConverts
  /\ converts' = converts + 1
  /\ parent_predictions' = convert_to_parent(patch_predictions, parent_predictions)
  /\ out' = Out("convert", "ok", 0, 0)
  /\ UNCHANGED <<patch_predictions, session>>

\* a runner over three patches of two parents, next to an idle session
InitRunner ==
  /\ Rendering
  /\ PlainGeometry
  /\ NoCsv
  /\ NewRunner

NextRunner ==
  \/ \E img \in PatchImages, polys \in Detections : RunOnImage(img, polys)
  \/ ConvertToParent

SpecRunner == InitRunner /\ [][NextRunner]_vars

\* ------------------------------------------------------------------ claims
\* the file _auto_save writes in the active mode, and the active label column
ActiveFile == IF annotate_context THEN context_file ELSE annotations_file
ActiveLabel == IF annotate_context THEN context_label ELSE label
Labelled == {r \in Rows : ActiveLabel[r] \notin {None, NaN}}

\* the active file holds exactly the rows with a non-null active label, each
\* with its label in memory
\* (an absent file holds no rows)
FileMirrorsTable ==
  /\ DOMAIN ActiveFile.cells = Labelled
  /\ \A r \in Labelled : ActiveFile.cells[r] = ActiveLabel[r]

C2_NoDuplicateWork ==
  [][(/\ out'.op = "init" /\ out'.res = "ok"
      /\ annotations_file.exists
      /\ DOMAIN annotations_file.cells \subseteq Rows
      /\ \A r \in DOMAIN annotations_file.cells : label[r] = annotations_file.cells[r]) =>
       \A i \in 1..Len(queue') : queue'[i] \notin DOMAIN annotations_file.cells]_vars

\* C3: saving a session and then constructing a fresh one over the same table
\* gives the same label and changed columns as before the reload.
C3_ResumeIdempotent ==
  [][(out.op = "save" /\ out'.op = "init") =>
       (out'.res = "ok" /\ label' = label /\ changed' = changed)]_vars

\* C4: running through a freshly built queue ends in COMPLETE: no advance
\* raises an index error, and once the cursor is past the last entry the
\* advance has signalled completion.
C4_QueueExhaustion ==
  (out.op \in {"annotate", "annotate_context", "advance"}) =>
    /\ out.res # "IndexError"
    /\ (current_index = Len(queue) => out.res = "complete")

\* C5: a pass over an empty eligible set signals completion on the first
\* render, reads no focal row and raises no error.
C5_EmptyQueueCompletes ==
  (out.op \in {"annotate", "annotate_context"} /\ queue = <<>>) =>
    (out.res = "complete" /\ out.ret = 0)

\* C6: from every cursor position but the terminal one, advance sets
\* previous_index to the old current_index, adds one to current_index and
\* returns the row key at the new position.
C6_Advance ==
  [][(out'.op = "advance" /\ current_index # Len(queue)) =>
       /\ previous_index' = current_index
       /\ current_index' = current_index + 1
       /\ PyInRange(queue, current_index')
       /\ out'.res # "IndexError"
       /\ out'.ret = PyIndex(queue, current_index')]_vars

\* C7: from a non-terminal position, retreat with current_index > 0 sets
\* previous_index to the old current_index, takes one from current_index and
\* returns the row key at the new position; at position 0 it changes neither
\* index and returns the row key at position 0.
C7_Retreat ==
  [][(out'.op = "retreat" /\ current_index # Len(queue)) =>
       IF current_index > 0
       THEN /\ previous_index' = current_index
            /\ current_index' = current_index - 1
            /\ out'.ret = queue[current_index' + 1]
       ELSE /\ current_index' = current_index
            /\ previous_index' = previous_index
            /\ out'.ret = queue[1]]_vars

\* a retreat that stepped back onto a row
C7_Witness ==
  /\ out.op = "retreat"
  /\ out.res = "rendered"
  /\ previous_index = current_index + 1
  /\ out.ret = queue[current_index + 1]

\* C8: at the terminal position every advance and every retreat leaves the
\* cursor, previous_index, the queue and all labels as they are and signals
\* completion; only a new annotate() / annotate_context() moves the cursor.
C8_TerminalAbsorbing ==
  [][current_index = Len(queue) =>
       /\ (out'.op \in {"advance", "retreat"} =>
             /\ current_index' = current_index
             /\ previous_index' = previous_index
             /\ queue' = queue
             /\ label' = label
             /\ context_label' = context_label
             /\ out'.res = "complete")
       /\ (current_index' # current_index =>
             out'.op \in {"annotate", "annotate_context"})]_vars

\* completion signalled again by a navigation step at the terminal position
C8_Witness ==
  /\ out.op \in {"advance", "retreat"}
  /\ out.res = "complete"
  /\ current_index = Len(queue)
  /\ Len(queue) > 0

\* C9: in every state of a session, changed is true exactly for the rows whose
\* label is non-null and non-empty, and context_changed exactly for the rows
\* whose context_label is non-null.
C9_ChangedIffLabelled ==
  Alive =>
    \A r \in Rows :
      /\ changed[r] <=> (label[r] \notin {None, NaN, ""})
      /\ context_changed[r] <=> (context_label[r] \notin {None, NaN})

\* C10: after the resume merge, a row's label is the one the session file
\* holds for it when the file has the row with a non-null label, and else the
\* label the supplied table carried.
C10_MergePrecedence ==
  (out.op = "init" /\ out.res = "ok" /\ annotations_file.exists) =>
    \A r \in Rows :
      label[r] = IF r \in DOMAIN annotations_file.cells
                    /\ annotations_file.cells[r] \notin NaStrings
                 THEN annotations_file.cells[r]
                 ELSE fresh[r]

\* a row whose saved label replaced a different label of the supplied table
C10_Witness ==
  /\ out.op = "init" /\ out.res = "ok"
  /\ \E r \in Rows \cap DOMAIN annotations_file.cells :
       /\ fresh[r] \notin {None, NaN}
       /\ annotations_file.cells[r] \notin NaStrings
       /\ annotations_file.cells[r] # fresh[r]
       /\ label[r] = annotations_file.cells[r]

\* C11: after the resume merge the table has exactly the row keys of the
\* supplied table, each once and in its order, whether or not the session
\* file holds the row; a row only the session file holds is not added.
C11_MergeTotal ==
  (out.op = "init" /\ out.res = "ok" /\ annotations_file.exists) =>
    /\ Len(index) = NumRows
    /\ \A r \in Rows : Cardinality({i \in DOMAIN index : index[i] = r}) = 1
    /\ \A i \in DOMAIN index : index[i] \in Rows

\* a merge with a session file that holds a row the table does not have
C11_Witness ==
  /\ out.op = "init" /\ out.res = "ok" /\ annotations_file.exists
  /\ StrayKey \in DOMAIN annotations_file.cells
  /\ Range(index) = Rows

\* the path collections of two constructions hold the same paths, each as often
SamePaths(a, b) ==
  /\ Len(a) = Len(b)
  /\ \A p \in Range(PathNames) :
       Cardinality({i \in DOMAIN a : a[i] = p}) = Cardinality({i \in DOMAIN b : b[i] = p})

\* C12 (as stated): two constructions with the same path collection (in any
\* row order), the same user and the same task resolve to the same session
\* file, and two whose path collections differ resolve to different files.
C12_IdentityPure ==
  earlier # NoSession =>
    /\ (/\ SamePaths(identity.paths, earlier.paths)
        /\ identity.username = earlier.username
        /\ identity.task_name = earlier.task_name) => identity.file = earlier.file
    /\ ~SamePaths(identity.paths, earlier.paths) => identity.file # earlier.file

\* C12 (amended): two constructions given the same non-empty user name, the
\* same task name and the same path collection in any row order resolve to the
\* same session file, and two whose path collections differ resolve to
\* different files.
C12_IdentityOfNamedUser ==
  earlier # NoSession =>
    /\ (/\ SamePaths(identity.paths, earlier.paths)
        /\ identity.username = earlier.username
        /\ Truthy(identity.username)
        /\ identity.task_name = earlier.task_name) => identity.file = earlier.file
    /\ ~SamePaths(identity.paths, earlier.paths) => identity.file # earlier.file

\* the same paths in another row order, same user and task, one file
C12_Witness ==
  /\ earlier # NoSession
  /\ identity.paths # earlier.paths
  /\ SamePaths(identity.paths, earlier.paths)
  /\ identity.username = "u1" /\ earlier.username = "u1"
  /\ identity.task_name = earlier.task_name
  /\ identity.file = earlier.file

\* C13: the queue get_queue builds holds exactly the rows whose label is null
\* or empty and whose value meets every min_values and max_values bound.
C13_QueueIsEligibleSet ==
  (out.res # "IndexError" /\ out.op \in {"init", "annotate"}) =>
    Range(queue) = {r \in Rows : /\ label[r] \in {None, NaN, ""}
                                 /\ \A c \in DOMAIN min_values : Score(r) >= min_values[c]
                                 /\ \A c \in DOMAIN max_values : Score(r) <= max_values[c]}

\* bounds b are at least as tight as bounds a
TighterMin(a, b) == DOMAIN a \subseteq DOMAIN b /\ \A c \in DOMAIN a : b[c] >= a[c]
TighterMax(a, b) == DOMAIN a \subseteq DOMAIN b /\ \A c \in DOMAIN a : b[c] <= a[c]

C15_LegacyMigration ==
  (out.op = "init" /\ annotations_file.exists /\ CsvDtype(annotations_file.cells) = "int") =>
    IF \A r \in DOMAIN annotations_file.cells :
         0 <= IntOf(annotations_file.cells[r]) /\ IntOf(annotations_file.cells[r]) < Len(labels)
    THEN /\ out.res = "ok"
         /\ \A r \in Rows \cap DOMAIN annotations_file.cells :
              label[r] = labels[IntOf(annotations_file.cells[r]) + 1]
    ELSE out.res = "IndexError"

\* C16: a save writes the complete set of labelled rows, and a process killed
\* at any point of a save leaves on disk either the whole file of the last
\* save or the whole file of this one.
C16_SaveWholeOrNothing ==
  [][/\ out'.op = "save" =>
          annotations_file' = SavedPatch(annotate_context, label, context_label, annotations_file)
     /\ out'.op = "crash" =>
          annotations_file' \in
            {annotations_file,
             SavedPatch(annotate_context, label, context_label, annotations_file)}]_vars

\* C17: a step that signals completion disables the label buttons, leaves the
\* file of the active mode holding every labelled row when auto_save is on and
\* writes no file when it is off; completion signalled again by a navigation
\* step leaves the table, the cursor and both files as they were.
C17_Completion ==
  [][out'.res = "complete" =>
       /\ disabled'
       /\ auto_save => (ActiveFile'.exists /\ FileMirrorsTable')
       /\ ~auto_save => files' = files
       /\ (out.res = "complete" /\ out'.op \in {"advance", "retreat"}) =>
            /\ table' = table
            /\ current_index' = current_index
            /\ previous_index' = previous_index
            /\ files' = files]_vars

\* completion signalled with labels in the table and saved
C17_Witness ==
  /\ out.res = "complete"
  /\ out.op \in {"advance", "retreat"}
  /\ auto_save /\ disabled
  /\ ActiveFile.exists
  /\ Labelled # {}
  /\ FileMirrorsTable

\* C18: no step in patch mode creates or changes the `_context` file and no
\* step in context mode creates or changes the session file.
C18_SavesNeverCollide ==
  [][/\ annotate_context' => annotations_file' = annotations_file
     /\ ~annotate_context' => context_file' = context_file]_vars

\* a context-level label saved next to a different patch-level file
C18_Witness ==
  /\ out.op = "record" /\ annotate_context /\ auto_save
  /\ annotations_file.exists /\ context_file.exists
  /\ out.wrote \in DOMAIN context_file.cells
  /\ out.wrote \notin DOMAIN annotations_file.cells
  /\ annotations_file.cells # Empty

\* the slots of the composite, as (row, column) pairs
SlotsOf(c) == {<<i, j>> : i \in DOMAIN c.images, j \in 1..(2 * surrounding + 1)}
BlankSlots(c) == {p \in SlotsOf(c) : c.images[p[1]][p[2]].kind = "blank"}

\* C19: the composite for surrounding = s has 2s+1 rows of 2s+1 slots, each a
\* patch image or a blank square of the focal patch's width and height, pasted
\* one focal width and height apart on a canvas of ((2s+1)*width,
\* (2s+1)*height).
C19_GridShape ==
  composite # NoComposite =>
    LET n == 2 * surrounding + 1
    IN /\ Len(composite.images) = n
       /\ \A i \in 1..n : Len(composite.images[i]) = n
       /\ Cardinality(SlotsOf(composite)) = n * n
       /\ \A i, j \in 1..n :
            /\ composite.images[i][j].kind \in {"tile", "blank"}
            /\ composite.images[i][j].kind = "blank" =>
                 /\ composite.images[i][j].width = shape[2]
                 /\ composite.images[i][j].height = shape[1]
            /\ composite.offsets[i][j] = <<(j - 1) * shape[2], (i - 1) * shape[1]>>
            /\ composite.offsets[i][j][1] + shape[2] <= composite.canvas[1]
            /\ composite.offsets[i][j][2] + shape[1] <= composite.canvas[2]
       /\ composite.canvas = <<n * shape[2], n * shape[1]>>

\* a composite of patches that are wider than high, with a neighbour and a
\* blank square around the focal patch
C19_Witness ==
  /\ composite # NoComposite
  /\ surrounding = 1
  /\ shape = <<128, 256>>
  /\ BlankSlots(composite) # {}
  /\ \E p \in SlotsOf(composite) :
       /\ composite.images[p[1]][p[2]].kind = "tile"
       /\ composite.images[p[1]][p[2]].id # composite.focal

\* four 256x256 patches of parent P1 two by two, surrounding = 1, and the
\* composite is the one for the top-left patch
TwoByTwoTopLeft ==
  /\ composite # NoComposite
  /\ shape = <<256, 256>>
  /\ surrounding = 1
  /\ \A t \in Tiles : grid[t].parent_id = "P1"
  /\ \A t, u \in Tiles :
       (grid[t].min_x = grid[u].min_x /\ grid[t].min_y = grid[u].min_y) => t = u
  /\ grid[composite.focal].min_x = 0
  /\ grid[composite.focal].min_y = 0

\* the focal patch sits in the middle slot and is not lightened
FocalUndimmed(c) ==
  /\ c.images[surrounding + 1][surrounding + 1].kind = "tile"
  /\ c.images[surrounding + 1][surrounding + 1].id = c.focal
  /\ ~c.images[surrounding + 1][surrounding + 1].dimmed

\* C20 (as stated): in the two-by-two scenario the composite for the top-left
\* patch is 768x768, has 3 blank slots and shows the focal patch undimmed.
C20_ThreeBlank ==
  TwoByTwoTopLeft =>
    /\ composite.canvas = <<768, 768>> /\ ~composite.scaled
    /\ Cardinality(BlankSlots(composite)) = 3
    /\ FocalUndimmed(composite)

\* C20 (amended): in the two-by-two scenario the composite for the top-left
\* patch is 768x768, has 5 blank slots (the top row and the left column) and
\* 4 patch images, and shows the focal patch undimmed.
C20_FiveBlank ==
  TwoByTwoTopLeft =>
    /\ composite.canvas = <<768, 768>> /\ ~composite.scaled
    /\ BlankSlots(composite) = {<<1, 1>>, <<1, 2>>, <<1, 3>>, <<2, 1>>, <<3, 1>>}
    /\ Cardinality(SlotsOf(composite) \ BlankSlots(composite)) = 4
    /\ FocalUndimmed(composite)

\* the scenario composed in patch mode, its neighbours lightened
C20_Witness ==
  /\ TwoByTwoTopLeft
  /\ ~annotate_context
  /\ composite.images[2][3].kind = "tile" /\ composite.images[2][3].dimmed
  /\ composite.images[3][3].kind = "tile"

\* C21 (as stated): a construction that aborts with a configuration error has
\* not read the session file and has not created the annotations directory.
C21_AbortsBeforeFiles ==
  (out.op = "init" /\ out.res \in {"SyntaxError", "ValueError"}) =>
    (~out.read /\ ~out.mkdir)

\* C21 (amended): a construction that aborts because the vocabulary is no list
\* has not read the session file and has not created the annotations
\* directory; one that aborts because of sortby has not created the directory
\* and has read the session file exactly when one exists.
C21_AbortsBeforeWrites ==
  (out.op = "init" /\ out.res \in {"SyntaxError", "ValueError"}) =>
    /\ ~out.mkdir
    /\ out.res = "SyntaxError" => ~out.read
    /\ out.res = "ValueError" => (out.read <=> annotations_file.exists)

\* construction aborted on sortby after it read the session file
C21_Witness ==
  /\ out.op = "init" /\ out.res = "ValueError"
  /\ setup.sortby = "nope"
  /\ out.read /\ ~out.mkdir
  /\ annotations_file.exists

\* C22: when a pass in which every presented row was given a label signals
\* completion, every row of its queue has been presented and so has a label.
C22_EveryRowPresented ==
  (/\ out.op = "record" /\ out.res = "complete"
   /\ \A i \in 1..current_index : ActiveLabel[queue[i]] # None) =>
    \A i \in DOMAIN queue : ActiveLabel[queue[i]] # None

\* C23: right after the queue is built it holds every row whose label is null
\* or empty and that meets the bounds exactly once, and no other row.
C23_QueueIsPermutation ==
  (Alive /\ out.op \in {"init", "annotate"}) =>
    \A r \in Rows :
      Cardinality({i \in DOMAIN queue : queue[i] = r}) =
        IF /\ label[r] \in {None, NaN, ""}
           /\ \A c \in DOMAIN min_values : Score(r) >= min_values[c]
           /\ \A c \in DOMAIN max_values : Score(r) <= max_values[c]
        THEN 1 ELSE 0

\* C24: the queue changes only in annotate() / annotate_context(), which start
\* from the not-started cursor: after them the cursor is on the first entry
\* and previous_index is -1; advance, retreat and record leave the queue as
\* it is.
C24_QueueFrame ==
  [][/\ queue' # queue => out'.op \in {"annotate", "annotate_context"}
     /\ out'.op \in {"advance", "retreat", "record"} => queue' = queue
     /\ out'.op \in {"annotate", "annotate_context"} =>
          (current_index' = 0 /\ previous_index' = -1)]_vars

\* a second pass begun after the first had moved the cursor, and a row
\* labelled in it that is still in its queue
C24_Witness ==
  /\ passes = 2
  /\ out.op = "record"
  /\ out.wrote \in Range(queue)
  /\ ActiveLabel[out.wrote] # None
  /\ current_index = 1

\* the origin of the slot in row i, column j of the composite c
SlotX(c, j) == grid[c.focal].min_x + (j - surrounding - 1) * shape[2]
SlotY(c, i) == grid[c.focal].min_y + (i - surrounding - 1) * shape[1]

\* C25: for every offset (dy, dx) in [-s, s]^2, rows outer, the slot shows a
\* row of the focal row's parent whose origin is the focal origin plus
\* (dx*width, dy*height), dimmed iff it is not the focal row and the session
\* is not in context mode; the slot is blank iff no row of that parent has
\* that origin; rows of other parents are never shown.
C25_NeighbourResolution ==
  composite # NoComposite =>
    \A p \in SlotsOf(composite) :
      LET m == Matches(grid, composite.focal, SlotX(composite, p[2]), SlotY(composite, p[1]))
          slot == composite.images[p[1]][p[2]]
      IN IF m = {}
         THEN slot.kind = "blank"
         ELSE /\ slot.kind = "tile"
              /\ slot.id \in m
              /\ slot.dimmed = (slot.id # composite.focal /\ ~annotate_context)

\* C26: a slot whose origin more than one row of the parent has shows the
\* first of those rows; it is not blank.
C26_FirstMatchShown ==
  composite # NoComposite =>
    \A p \in SlotsOf(composite) :
      LET m == Matches(grid, composite.focal, SlotX(composite, p[2]), SlotY(composite, p[1]))
          slot == composite.images[p[1]][p[2]]
      IN Cardinality(m) > 1 =>
           /\ slot.kind = "tile"
           /\ slot.id \in m
           /\ \A t \in m : slot.id <= t

\* C27: a render with context completes whatever image files are missing: the
\* composite is the one of the row rendered and the slot of a missing image
\* is blank.
C27_MissingDegrades ==
  out.op = "render" =>
    /\ out.res = "ok"
    /\ composite.focal = out.ret
    /\ \A p \in SlotsOf(composite) :
         LET m == Matches(grid, composite.focal, SlotX(composite, p[2]), SlotY(composite, p[1]))
         IN (m \cap on_disk = {}) => composite.images[p[1]][p[2]].kind = "blank"

\* the slots of the composite that show a lightened patch
DimmedSlots(c) ==
  {p \in SlotsOf(c) : c.images[p[1]][p[2]].kind = "tile" /\ c.images[p[1]][p[2]].dimmed}

\* C28 (as stated): a pixel value old of a dimmed patch becomes
\* 256 - (256 - old) * 0.6 truncated to an integer, and that is within 0..255.
C28_Lighten60 ==
  \A p \in DimmedSlots(composite) :
    LET new == composite.images[p[1]][p[2]].pixel
    IN /\ new \in PixelValues
       /\ 5 * new <= 5 * 256 - 3 * (256 - pixel)
       /\ 5 * 256 - 3 * (256 - pixel) < 5 * (new + 1)

\* C28 (amended): a pixel value old of a dimmed patch becomes
\* 256 - (256 - old) * 0.4 truncated to an integer, and that is within 0..255.
C28_Lighten40 ==
  \A p \in DimmedSlots(composite) :
    LET new == composite.images[p[1]][p[2]].pixel
    IN /\ new \in PixelValues
       /\ 5 * new <= 5 * 256 - 2 * (256 - pixel)
       /\ 5 * 256 - 2 * (256 - pixel) < 5 * (new + 1)

\* a black pixel of a dimmed neighbour, lightened to 153
C28_Witness ==
  /\ pixel = 0
  /\ DimmedSlots(composite) # {}
  /\ \A p \in DimmedSlots(composite) : composite.images[p[1]][p[2]].pixel = 153

\* C29: a session file written by save (row keys of the table, labels of the
\* vocabulary) is read back by __init__ under every configured delimiter:
\* construction with valid labels and sortby arguments and the default label
\* column succeeds and every row of the file has the file's label.
C29_ReadBackWithDelimiter ==
  (/\ out.op = "init"
   /\ setup.labels_is_list
   /\ setup.label_col = "label"
   /\ setup.sortby \in {None} \cup Columns
   /\ annotations_file.exists
   /\ DOMAIN annotations_file.cells \subseteq Rows
   /\ \A r \in DOMAIN annotations_file.cells :
        annotations_file.cells[r] \in LabelSet(labels) \ NaStrings) =>
    /\ out.res = "ok"
    /\ \A r \in DOMAIN annotations_file.cells : label[r] = annotations_file.cells[r]

\* C30: a save (with sort) succeeds for every set of labelled row keys; the
\* rows it writes are the labelled rows, each once, in ascending order of
\* "<second piece>-<first piece>" of the key split around '#'.
C30_SortedSaveSucceeds ==
  out.op = "save" =>
    /\ out.res = "ok"
    /\ ActiveFile.exists
    /\ FileMirrorsTable
    /\ Len(out.rows) = Cardinality(Labelled)
    /\ \A r \in Labelled : \E i \in DOMAIN out.rows : out.rows[i] = r
    /\ \A i, j \in DOMAIN out.rows :
         i < j => StrLess(sort_value(row_key[out.rows[i]]), sort_value(row_key[out.rows[j]]))

\* the cells of a column are native values: none is a str
Native(col) == \A i \in DOMAIN col : col[i] \in {<<"int">>, <<"tuple">>}

\* C31: _eval_df applied twice gives the table it gives applied once; a
\* column of native values is unchanged by it; a column with a cell that is
\* no literal is unchanged by it.
C31_EvalIdempotent ==
  /\ evals = 2 => patch_df = eval_df(given)
  /\ evals = 1 =>
       \A c \in CsvColumns :
         (Native(given[c]) \/ \E i \in DOMAIN given[c] : literal_eval_raises(given[c][i])) =>
           patch_df[c] = given[c]

\* C32: two constructions that differ in task name or in user resolve to
\* different session files.
C32_DistinctSessionsDistinctFiles ==
  (/\ earlier # NoSession
   /\ \/ identity.task_name # earlier.task_name
      \/ identity.username # earlier.username) => identity.file # earlier.file

\* C33: for every configured label_col, a construction with valid labels and
\* sortby arguments and no session file to resume from succeeds, and its
\* eligibility test reads the column named label_col: the queue holds the
\* rows whose value in that column is None.
C33_LabelColHonoured ==
  (/\ out.op = "init"
   /\ setup.labels_is_list
   /\ setup.sortby \in {None} \cup Columns
   /\ ~annotations_file.exists) =>
    /\ out.res = "ok"
    /\ Range(queue) = {r \in Rows : label[r] = None}

\* C34: in a session constructed again over the same items, user and task,
\* no step in context mode takes a row out of the `_context` file, and only
\* the row a record has just written gets another label in it.
C34_ContextLabelsSurvive ==
  [][(restarts' >= 1 /\ annotate_context') =>
       \A r \in DOMAIN context_file.cells :
         /\ r \in DOMAIN context_file'.cells
         /\ (out'.op = "record" /\ out'.wrote = r)
              \/ context_file'.cells[r] = context_file.cells[r]]_vars

\* the changed flag that goes with the active label column
ActiveChanged == IF annotate_context THEN context_changed ELSE changed

C36_CursorBounds ==
  /\ -1 <= current_index /\ current_index <= Len(queue)
  /\ out.res # "IndexError"
  /\ (out.op \in {"annotate", "annotate_context", "advance", "retreat"}
      /\ out.res \notin {"complete", "IndexError"}) =>
       (0 <= current_index /\ current_index < Len(queue))

\* C37: the queue annotate_context builds is decided by the patch-level label:
\* it holds exactly the rows whose patch label is null and that meet the
\* bounds, whatever their context_label.
C37_ContextQueueByPatchLabel ==
  out.op = "annotate_context" =>
    Range(queue) = {r \in Rows : /\ label[r] \in {None, NaN}
                                 /\ \A c \in DOMAIN min_values : Score(r) >= min_values[c]
                                 /\ \A c \in DOMAIN max_values : Score(r) <= max_values[c]}

\* C38: a call of convert_to_parent_pixel_bounds that follows another with
\* no run between them leaves parent_predictions as it was; and after
\* run_on_image every image has one entry in patch_predictions, holding the
\* instances of its last run only.
C38_ConvertIdempotent ==
  [][/\ (out.op = "convert" /\ out'.op = "convert") =>
          parent_predictions' = parent_predictions
     /\ out'.op = "run_on_image" =>
          /\ \A i, j \in DOMAIN patch_predictions' :
               patch_predictions'[i][1] = patch_predictions'[j][1] => i = j
          /\ \A i \in DOMAIN patch_predictions' :
               Len(patch_predictions'[i][2]) <= MaxInstances]_vars


====
